---- MODULE Spec2Model ----
(***************************************************************************)
(* A model of the Learn It Live chat worker and its browser client.        *)
(*                                                                         *)
(*   - the FAQ selector buildContextFromResources (src/src/index.ts),      *)
(*     a pure function, checked under SelectorSpec;                        *)
(*   - the request handler handleChatRequest (src/src/index.ts), one       *)
(*     action per await of the handler, checked under Spec;                *)
(*   - the client's sendMessage and its stream consumer                    *)
(*     (src/public/chat.js), checked under ClientSpec / ClientFairSpec;    *)
(*   - the client's escapeHtml and linkify (src/public/chat.js), a pure    *)
(*     function over raw texts, checked under LinkifySpec.                 *)
(*                                                                         *)
(* JavaScript strings are sequences of one-character strings (UTF-16 code  *)
(* units), so that length, slice, includes and toLowerCase are computed.   *)
(* src/unnamed/part_000 is an earlier revision of the same handler (no     *)
(* selector, no retrieval, the same loadResources): its resources step is  *)
(* the action ResourcesLoadedJson.                                         *)
(*                                                                         *)
(* FAQ entries are as the data model has them: q and a are strings.        *)
(***************************************************************************)
EXTENDS Integers, Sequences, FiniteSets, TLC

VARIABLES
    env,        \* the worker's bindings: which optional ones are configured
    req,        \* server: the requests being handled, each with its locals
    sel,        \* selector: one call of buildContextFromResources
    lnk,        \* client: one call of linkify
    userInputValue,     \* client: userInput.value
    isProcessing,       \* client: the isProcessing flag
    userInputDisabled,  \* client: userInput.disabled
    sendButtonDisabled, \* client: sendButton.disabled
    typingVisible,      \* client: typingIndicator has class "visible"
    chatHistory,        \* client: the chatHistory array
    chatMessages,       \* client: the children of #chat-messages
    suggestions,        \* client: the suggestion buttons rendered so far
    calls               \* client: the sendMessage calls that passed the guard

serverVars == <<env, req>>
selVars == <<sel, lnk>>
clientVars == <<userInputValue, isProcessing, userInputDisabled,
                sendButtonDisabled, typingVisible, chatHistory, chatMessages,
                suggestions, calls>>
vars == <<env, req, sel, lnk, userInputValue, isProcessing, userInputDisabled,
          sendButtonDisabled, typingVisible, chatHistory, chatMessages,
          suggestions, calls>>

(***************************************************************************)
(* Strings                                                                 *)
(***************************************************************************)
Min(a, b) == IF a < b THEN a ELSE b

Repeat(c, n) == [i \in 1..n |-> c]

\* String.prototype.toLowerCase on the letters the inputs use.
LowerChar(c) ==
    CASE c = "A" -> "a"
      [] c = "B" -> "b"
      [] c = "H" -> "h"
      [] OTHER -> c

toLowerCase(s) == [i \in 1..Len(s) |-> LowerChar(s[i])]

\* String.prototype.includes: sub occurs in s as a contiguous substring.
includes(s, sub) ==
    \E i \in 0..(Len(s) - Len(sub)) : SubSeq(s, i + 1, i + Len(sub)) = sub

\* s.slice(0, n) for n >= 0, of a string or an array.
slice0(s, n) == SubSeq(s, 1, Min(n, Len(s)))

(***************************************************************************)
(* JavaScript values of the knowledge document                             *)
(***************************************************************************)
\* null: what loadResources returns on failure, and the JSON text "null".
JsNull == [type |-> "null"]

\* A truthy JSON value that is not an object (a non-empty JSON string).
JsScalar == [type |-> "string"]

\* An object: brand is resources.brand?.name (<<>> when missing or empty),
\* faqIsArray is Array.isArray(resources.faq), faq the array's entries.
JsObject(brand, faqIsArray, faq) ==
    [type |-> "object", brand |-> brand, faqIsArray |-> faqIsArray, faq |-> faq]

Truthy(v) == v.type # "null"

\* The text JSON.stringify(v) returns, kept as the value it encodes.
JSONstringify(v) == [json |-> v]

(***************************************************************************)
(* FAQ selector                                                            *)
(***************************************************************************)
DefaultMaxFaq == 5

DefaultMaxAnswerChars == 400

DefaultBrand == <<"Lily Virtual Support">>

\* The literal the source appends to a truncated answer: three UTF-16 code
\* units (U+00E2 U+20AC U+00A6), the bytes of U+2026 read as windows-1252.
TruncationSuffix == <<"U+00E2", "U+20AC", "U+00A6">>

\* The ellipsis character U+2026, one code unit.
EllipsisChar == <<"U+2026">>

\* f.a.length > maxAnswerChars ? f.a.slice(0, maxAnswerChars) + suffix : f.a
truncateAnswer(a, maxAnswerChars) ==
    IF Len(a) > maxAnswerChars
    THEN slice0(a, maxAnswerChars) \o TruncationSuffix
    ELSE a

\* A mutant of faqMatches: only the question is looked at.
faqMatchesQuestionOnly(f, q) ==
    /\ q # <<>>
    /\ includes(toLowerCase(f.q), q)

\* The filter's callback: the lowercased question or answer includes q.
faqMatches(f, q) ==
    /\ q # <<>>
    /\ \/ includes(toLowerCase(f.q), q)
       \/ includes(toLowerCase(f.a), q)

\* A mutant of candidatesOf: no fallback to the full set.
candidatesOfNoFallback(userQuery, faqs) ==
    LET q == toLowerCase(userQuery)
        Keep(f) == faqMatches(f, q)
    IN  IF q # <<>> THEN SelectSeq(faqs, Keep) ELSE faqs

\* The candidate set: the entries matching the query, or all when the query
\* is empty or nothing matches.
candidatesOf(userQuery, faqs) ==
    LET q == toLowerCase(userQuery)
        Keep(f) == faqMatches(f, q)
        filtered == IF q # <<>> THEN SelectSeq(faqs, Keep) ELSE faqs
    IN  IF Len(filtered) = 0 THEN faqs ELSE filtered

buildContextFromResources(userQuery, resources, maxFaq, maxAnswerChars) ==
    IF ~Truthy(resources) \/ resources.type # "object"
    THEN JsNull
    ELSE
        LET brand == IF resources.brand # <<>> THEN resources.brand
                     ELSE DefaultBrand
            faqs == IF resources.faqIsArray THEN resources.faq ELSE <<>>
            candidates == candidatesOf(userQuery, faqs)
            selected ==
                [i \in 1..Min(maxFaq, Len(candidates)) |->
                    [q |-> candidates[i].q,
                     a |-> truncateAnswer(candidates[i].a, maxAnswerChars),
                     url |-> candidates[i].url]]
        IN  JSONstringify([brand |-> brand, selected_faq |-> selected])

(***************************************************************************)
(* Inputs of the selector                                                  *)
(***************************************************************************)
MaxFaqLen == 6

SeqsUpTo(S, n) == UNION {[1..k -> S] : k \in 0..n}

\* Three entries: a short one whose question matches "ab" whatever the case,
\* one whose 400-character answer matches it, one with a 401-character answer.
FaqPool ==
    { [q |-> <<"A", "b">>, a |-> <<"c">>, url |-> <<"u">>],
      [q |-> <<"c">>, a |-> <<"a", "B">> \o Repeat("x", 398), url |-> <<>>],
      [q |-> <<"b", "a">>, a |-> Repeat("y", 401), url |-> <<>>] }

Queries == { <<>>, <<"a", "b">>, <<"A", "B">>, <<"z">>, <<"y">> }

SelResources ==
    {JsNull, JsScalar, JsObject(<<>>, FALSE, <<>>)}
    \cup {JsObject(<<"L">>, TRUE, f) : f \in SeqsUpTo(FaqPool, MaxFaqLen)}

SelInit ==
    sel \in [pc : {"call"}, userQuery : Queries, resources : SelResources,
             maxFaq : {1, DefaultMaxFaq},
             maxAnswerChars : {DefaultMaxAnswerChars},
             result : {JsNull}]

SelIdle == sel = [pc |-> "idle"]

\* One call of buildContextFromResources on the drawn arguments.
Select ==
    /\ sel.pc = "call"
    /\ sel' = [sel EXCEPT
                !.pc = "done",
                !.result = buildContextFromResources(
                    sel.userQuery, sel.resources, sel.maxFaq,
                    sel.maxAnswerChars)]
    /\ UNCHANGED <<lnk, serverVars, clientVars>>

(***************************************************************************)
(* Server: the context assembly of handleChatRequest                       *)
(***************************************************************************)
Msg(role, content) == [role |-> role, content |-> content]

\* A message content that is plain text.
Text(s) == [text |-> s]

SYSTEM_PROMPT == <<"You are Lily, the Learn It Live virtual support assistant.">>

ResourcesLabel == "Learn It Live resources (selected): "

ResourcesJsonLabel == "Learn It Live resources (JSON): "

AutoRagLabel == "AutoRAG context: "

\* messages.some((msg) => msg.role === "system")
hasSystem(messages) == \E i \in 1..Len(messages) : messages[i].role = "system"

\* A mutant of BaselineStep: the prompt is added whatever the history holds.
BaselineStepAlways(messages) ==
    <<Msg("system", Text(SYSTEM_PROMPT))>> \o messages

\* Ensure the system prompt is present.
BaselineStep(messages) ==
    IF ~hasSystem(messages)
    THEN <<Msg("system", Text(SYSTEM_PROMPT))>> \o messages
    ELSE messages

\* messages.filter((m) => m.role === "user").slice(-1)[0]?.content ?? ""
latestUserOf(messages) ==
    LET IsUser(m) == m.role = "user"
        users == SelectSeq(messages, IsUser)
    IN  IF users = <<>> THEN <<>> ELSE users[Len(users)].content.text

\* A mutant of loadResources: the status of the answer is not looked at.
loadResourcesAnyStatus(outcome) ==
    IF outcome.kind \in {"document", "notOk"} THEN outcome.doc ELSE JsNull

\* What loadResources returns for an outcome of the asset fetch: null when
\* the fetch throws, the status is not ok or the body does not parse.
loadResources(outcome) ==
    IF outcome.kind = "document" THEN outcome.doc ELSE JsNull

\* A mutant of ResourcesStep: the message is pushed to the end of the list.
ResourcesStepPush(messages, resources, latestUser) ==
    IF Truthy(resources)
    THEN LET compact == buildContextFromResources(
                latestUser, resources, DefaultMaxFaq, DefaultMaxAnswerChars)
         IN  IF compact # JsNull
             THEN messages \o
                  <<Msg("system",
                        [label |-> ResourcesLabel, compact |-> compact.json])>>
             ELSE messages
    ELSE messages

\* A mutant of ResourcesStep: the message is written over the first one.
ResourcesStepOverwrite(messages, resources, latestUser) ==
    IF Truthy(resources)
    THEN LET compact == buildContextFromResources(
                latestUser, resources, DefaultMaxFaq, DefaultMaxAnswerChars)
         IN  IF compact # JsNull
             THEN <<Msg("system",
                        [label |-> ResourcesLabel, compact |-> compact.json])>>
                  \o Tail(messages)
             ELSE messages
    ELSE messages

\* The resources step: a returned compact text is a JSON text, never the
\* empty string, so "if (compact)" fails only on null.
ResourcesStep(messages, resources, latestUser) ==
    IF Truthy(resources)
    THEN LET compact == buildContextFromResources(
                latestUser, resources, DefaultMaxFaq, DefaultMaxAnswerChars)
         IN  IF compact # JsNull
             THEN <<Msg("system",
                        [label |-> ResourcesLabel, compact |-> compact.json])>>
                  \o messages
             ELSE messages
    ELSE messages

\* The resources step of the earlier revision: the whole document, when it
\* is truthy, is prepended as JSON.
ResourcesStepJson(messages, resources) ==
    IF Truthy(resources)
    THEN <<Msg("system",
               [label |-> ResourcesJsonLabel, resources |-> resources])>>
         \o messages
    ELSE messages

\* The directive fields the policy compiler recognises, in its fixed order.
RecognizedFields == <<"style", "tone">>

PolicyHeader == "STRICT POLICY"

\* The policy compiler: one line per recognised field with a non-empty
\* value, in the fixed order, under the header; absent (null) when the
\* document is absent or no field produced a line.
compilePolicy(directives) ==
    IF ~Truthy(directives)
    THEN JsNull
    ELSE LET Present(f) == directives.fields[f] # <<>>
             labels == SelectSeq(RecognizedFields, Present)
         IN  IF labels = <<>>
             THEN JsNull
             ELSE [header |-> PolicyHeader,
                   lines |-> [i \in 1..Len(labels) |->
                                <<labels[i], directives.fields[labels[i]]>>]]

\* The policy step: the compiled policy, if present, is prepended.
PolicyStep(messages, policy) ==
    IF policy # JsNull
    THEN <<Msg("system", [policy |-> policy])>> \o messages
    ELSE messages

\* A mutant of RetrievalStep: the context is appended after the history.
RetrievalStepAppend(messages, ragResult) ==
    IF Truthy(ragResult)
    THEN messages \o
         <<Msg("system", [label |-> AutoRagLabel, rag |-> ragResult.answer])>>
    ELSE messages

\* if (ragResult) messages.unshift({role: "system", content: "AutoRAG ..."})
RetrievalStep(messages, ragResult) ==
    IF Truthy(ragResult)
    THEN <<Msg("system", [label |-> AutoRagLabel, rag |-> ragResult.answer])>>
         \o messages
    ELSE messages

\* The response of the catch block.
ErrorResponse ==
    [status |-> 500, contentType |-> "application/json",
     body |-> "{\"error\":\"Failed to process request\"}"]

NoResponse == [status |-> 0, contentType |-> "", body |-> ""]

\* What env.AI.run resolves to with returnRawResponse: the upstream
\* response as it is, a stream or an upstream failure.
ModelResponses ==
    { [status |-> 200, contentType |-> "text/event-stream", body |-> "stream"],
      [status |-> 502, contentType |-> "text/plain",
       body |-> "upstream error detail"] }

(***************************************************************************)
(* Server: inputs                                                          *)
(***************************************************************************)
Hi == <<"h", "i">>

\* The request bodies that parse: the "messages" array of each ("messages"
\* missing gives the default []).
Histories ==
    { <<>>,
      <<Msg("user", Text(Hi))>>,
      <<Msg("system", Text(<<"s">>)), Msg("user", Text(Hi))>>,
      <<Msg("user", Text(Hi)), Msg("system", Text(<<"s">>))>>,
      <<Msg("user", Text(<<"A", "B">>)), Msg("assistant", Text(<<"c">>)),
        Msg("user", Text(<<>>))>> }

\* The documents resources.json may hold: null, a string, {}, {faq: []}
\* and a document with two entries, the second with a 401-character answer.
ServerDocs ==
    { JsNull, JsScalar,
      JsObject(<<>>, FALSE, <<>>),
      JsObject(<<>>, TRUE, <<>>),
      JsObject(<<"L">>, TRUE,
               << [q |-> <<"A", "b">>, a |-> <<"c">>, url |-> <<"u">>],
                  [q |-> <<"h", "i">>, a |-> Repeat("y", 401), url |-> <<>>] >>) }

\* What the asset fetch may do: throw, answer with a status that is not ok
\* (with a body that is no JSON, or with a JSON body), answer ok with a body
\* that does not parse, or answer ok with a document.
LoadOutcomes ==
    { [kind |-> k, doc |-> JsNull] : k \in {"fetchThrows", "notOk", "parseFails"} }
    \cup { [kind |-> "notOk", doc |-> JsObject(<<>>, FALSE, <<>>)] }
    \cup { [kind |-> "document", doc |-> d] : d \in ServerDocs }

\* The directives document: absent, with only blank fields, with a tone.
DirectiveOutcomes ==
    { JsNull,
      [type |-> "object", fields |-> [style |-> <<>>, tone |-> <<>>]],
      [type |-> "object", fields |-> [style |-> <<>>, tone |-> <<"t">>]],
      [type |-> "object", fields |-> [style |-> <<"s">>, tone |-> <<"t">>]] }

\* What ar.aiSearch / ar.search resolves to: nothing, or a result.
RagResults == { JsNull, [type |-> "object", answer |-> "found"] }

\* The bindings: AUTORAG_INSTANCE and AUTORAG_TENANT set or not, env.AI
\* with or without an autorag function, whose instance has or lacks the
\* aiSearch and search methods.
EnvConfigs ==
    [AUTORAG_INSTANCE : BOOLEAN, AUTORAG_TENANT : BOOLEAN, autorag : BOOLEAN,
     aiSearch : BOOLEAN, search : BOOLEAN]

Requests == {1}

NoCall == [method |-> "none", query |-> <<>>, filter |-> FALSE]

NewRequest ==
    [pc |-> "parse", bodyOutcome |-> "none", history |-> <<>>,
     messages |-> <<>>, latestUser |-> <<>>, loadOutcome |-> "none", resources |-> JsNull, policy |-> JsNull,
     ragCall |-> NoCall, ragOutcome |-> "none", ragResult |-> JsNull,
     aiCalled |-> FALSE, aiInput |-> <<>>, modelOutcome |-> "none",
     response |-> NoResponse, layers |-> <<>>]

\* The layer a step added, if it added a message.
Added(layers, before, after, name) ==
    IF Len(after) > Len(before) THEN Append(layers, name) ELSE layers

(***************************************************************************)
(* Server: handleChatRequest, one action per await                         *)
(***************************************************************************)
\* await request.json(): a body that does not parse, or whose messages is
\* no array of messages, throws into the catch block; otherwise the
\* baseline step runs and loadResources is called.
ParseBody(r) ==
    /\ req[r].pc = "parse"
    /\ \/ req' = [req EXCEPT ![r].pc = "done",
                             ![r].bodyOutcome = "malformed",
                             ![r].response = ErrorResponse]
       \/ \E h \in Histories :
            LET m == BaselineStep(h)
            IN  req' = [req EXCEPT
                    ![r].pc = "load",
                    ![r].bodyOutcome = "parsed",
                    ![r].history = h,
                    ![r].messages = m,
                    ![r].layers = Added(<<>>, h, m, "baseline")]
    /\ UNCHANGED <<env, selVars, clientVars>>

\* env.AI.run(MODEL_ID, {messages, max_tokens}, ...) is called.
CallModel(rq) == [rq EXCEPT !.pc = "run", !.aiCalled = TRUE,
                            !.aiInput = rq.messages]

\* The earlier revision: await loadResources(env), the document itself is
\* prepended, and the model is called.
ResourcesLoadedJson(r) ==
    /\ req[r].pc = "load"
    /\ \E o \in LoadOutcomes :
         LET resources == loadResources(o)
             m == ResourcesStepJson(req[r].messages, resources)
         IN  req' = [req EXCEPT ![r] =
                 CallModel([req[r] EXCEPT
                     !.loadOutcome = o.kind,
                     !.resources = resources,
                     !.messages = m,
                     !.layers = Added(@, req[r].messages, m, "resources")])]
    /\ UNCHANGED <<env, selVars, clientVars>>

\* A mutant of ResourcesLoaded: the working list is shared, and the
\* resources message is unshifted onto the list of every request.
ResourcesLoadedShared(r) ==
    /\ req[r].pc = "load"
    /\ \E o \in LoadOutcomes :
         LET resources == loadResources(o)
             latestUser == latestUserOf(req[r].messages)
             m == ResourcesStep(req[r].messages, resources, latestUser)
         IN  req' = [q \in DOMAIN req |->
                 IF q = r
                 THEN [req[r] EXCEPT
                         !.pc = "directives",
                         !.loadOutcome = o.kind,
                         !.resources = resources,
                         !.latestUser = latestUser,
                         !.messages = m,
                         !.layers = Added(@, req[r].messages, m, "resources")]
                 ELSE [req[q] EXCEPT
                         !.messages = ResourcesStep(@, resources, latestUser)]]
    /\ UNCHANGED <<env, selVars, clientVars>>

\* await loadResources(env), then the resources step.
ResourcesLoaded(r) ==
    /\ req[r].pc = "load"
    /\ \E o \in LoadOutcomes :
         LET resources == loadResources(o)
             latestUser == latestUserOf(req[r].messages)
             m == ResourcesStep(req[r].messages, resources, latestUser)
         IN  req' = [req EXCEPT
                 ![r].pc = "directives",
                 ![r].loadOutcome = o.kind,
                 ![r].resources = resources,
                 ![r].latestUser = latestUser,
                 ![r].messages = m,
                 ![r].layers = Added(@, req[r].messages, m, "resources")]
    /\ UNCHANGED <<env, selVars, clientVars>>

\* The directives document is loaded and compiled, and the policy prepended.
DirectivesLoaded(r) ==
    /\ req[r].pc = "directives"
    /\ \E d \in DirectiveOutcomes :
         LET policy == compilePolicy(d)
             m == PolicyStep(req[r].messages, policy)
         IN  req' = [req EXCEPT
                 ![r].pc = "autorag",
                 ![r].policy = policy,
                 ![r].messages = m,
                 ![r].layers = Added(@, req[r].messages, m, "policy")]
    /\ UNCHANGED <<env, selVars, clientVars>>

\* A mutant of SilentFallback: the error reaches the handler's catch block.
SilentFallbackRethrown(rq, outcome) ==
    [rq EXCEPT !.pc = "done", !.ragOutcome = outcome,
               !.response = ErrorResponse]

\* catch (e) {} of the retrieval block: nothing is done with the error and
\* the handler goes on to the model call.
SilentFallback(rq, outcome) ==
    CallModel([rq EXCEPT !.ragOutcome = outcome])

\* A mutant of ragOpts: the filter is passed whatever the configuration.
ragOptsAlwaysFilter(method, queryText) ==
    [method |-> method, query |-> queryText, filter |-> TRUE]

\* The options of the retrieval call: the filter only with a tenant.
ragOpts(method, queryText) ==
    [method |-> method, query |-> queryText, filter |-> env.AUTORAG_TENANT]

\* The retrieval block up to its await: obtaining the instance may throw
\* (caught, silently); aiSearch is preferred to search; with no query or no
\* method nothing is awaited and the model is called.
StartRetrieval(r) ==
    /\ req[r].pc = "autorag"
    /\ IF env.AUTORAG_INSTANCE /\ env.autorag
       THEN \/ req' = [req EXCEPT ![r] =
                        SilentFallback(req[r], "instanceThrows")]
            \/ LET queryText == req[r].latestUser
               IN  IF queryText # <<>> /\ env.aiSearch
                   THEN req' = [req EXCEPT
                            ![r].pc = "retrieval",
                            ![r].ragCall = ragOpts("aiSearch", queryText)]
                   ELSE IF queryText # <<>> /\ env.search
                   THEN req' = [req EXCEPT
                            ![r].pc = "retrieval",
                            ![r].ragCall = ragOpts("search", queryText)]
                   ELSE req' = [req EXCEPT ![r] = CallModel(req[r])]
       ELSE req' = [req EXCEPT ![r] = CallModel(req[r])]
    /\ UNCHANGED <<env, selVars, clientVars>>

\* await ar.aiSearch(opts) / ar.search(opts): a rejection is caught
\* silently, a result is prepended; then the model is called.
RetrievalDone(r) ==
    /\ req[r].pc = "retrieval"
    /\ \/ req' = [req EXCEPT ![r] = SilentFallback(req[r], "callThrows")]
       \/ \E res \in RagResults :
            LET m == RetrievalStep(req[r].messages, res)
            IN  req' = [req EXCEPT ![r] =
                    CallModel([req[r] EXCEPT
                        !.ragOutcome = "resolved",
                        !.ragResult = res,
                        !.messages = m,
                        !.layers = Added(@, req[r].messages, m, "retrieval")])]
    /\ UNCHANGED <<env, selVars, clientVars>>

\* await env.AI.run(...): the response is returned as it is; a thrown error
\* is answered by the catch block.
ModelDone(r) ==
    /\ req[r].pc = "run"
    /\ \/ req' = [req EXCEPT ![r].pc = "done",
                             ![r].modelOutcome = "throws",
                             ![r].response = ErrorResponse]
       \/ \E resp \in ModelResponses :
            req' = [req EXCEPT
                ![r].pc = "done",
                ![r].modelOutcome = IF resp.status = 200 THEN "ok"
                                    ELSE "notOk",
                ![r].response = resp]
    /\ UNCHANGED <<env, selVars, clientVars>>

ServerInit ==
    /\ env \in EnvConfigs
    /\ req = [r \in Requests |-> NewRequest]

\* Concurrent requests: each call of handleChatRequest has its own locals.
MaxRequests == 2

\* The inputs of the concurrent requests: a history without and one with a
\* system message, a document that fails to load or has two entries, no
\* directives, a retrieval that fails or gives a result.
ConcurrentHistories ==
    { <<Msg("user", Text(Hi))>>,
      <<Msg("system", Text(<<"s">>)), Msg("user", Text(Hi))>> }

ConcurrentInputs ==
    \A r \in DOMAIN req :
        /\ req[r].bodyOutcome = "parsed" =>
             req[r].history \in ConcurrentHistories
        /\ req[r].loadOutcome \in {"none", "notOk", "document"}
        /\ req[r].loadOutcome = "document" =>
             /\ req[r].resources.type = "object"
             /\ req[r].resources.faq # <<>>
        /\ req[r].policy = JsNull
        /\ req[r].ragOutcome = "resolved" => Truthy(req[r].ragResult)

\* All the bindings are configured; every request starts at its parse.
ConcurrentServerInit ==
    /\ env = [AUTORAG_INSTANCE |-> TRUE, AUTORAG_TENANT |-> TRUE,
              autorag |-> TRUE, aiSearch |-> TRUE, search |-> TRUE]
    /\ req = [r \in 1..MaxRequests |-> NewRequest]

ServerIdle ==
    /\ env = [AUTORAG_INSTANCE |-> FALSE, AUTORAG_TENANT |-> FALSE,
              autorag |-> FALSE, aiSearch |-> FALSE, search |-> FALSE]
    /\ req = <<>>

(***************************************************************************)
(* Client: the wire format and its parsing                                 *)
(***************************************************************************)
\* The tokens of a line {"response":"<text>"}\n. The key with its quotes is
\* one token; every other token is one character.
LBRACE == "{"
KEY == "\"response\""
COLON == ":"
QUOTE == "\""
RBRACE == "}"
NL == "\n"

StructuralTokens == {LBRACE, KEY, COLON, QUOTE, RBRACE, NL}

\* The line the server emits for one fragment of the answer.
EncodeLine(fragment) ==
    <<LBRACE, KEY, COLON, QUOTE>> \o fragment \o <<QUOTE, RBRACE, NL>>

RECURSIVE EncodeLines(_)
EncodeLines(fragments) ==
    IF fragments = <<>> THEN <<>>
    ELSE EncodeLine(Head(fragments)) \o EncodeLines(Tail(fragments))

RECURSIVE Concat(_)
Concat(fragments) ==
    IF fragments = <<>> THEN <<>>
    ELSE Head(fragments) \o Concat(Tail(fragments))

\* chunk.split("\n"): the pieces between the newlines, empty ones included.
RECURSIVE split(_)
split(chunk) ==
    IF \A i \in 1..Len(chunk) : chunk[i] # NL
    THEN <<chunk>>
    ELSE LET n == CHOOSE i \in 1..Len(chunk) :
                    /\ chunk[i] = NL
                    /\ \A j \in 1..(i - 1) : chunk[j] # NL
         IN  <<SubSeq(chunk, 1, n - 1)>>
             \o split(SubSeq(chunk, n + 1, Len(chunk)))

IsPlainText(s) == \A i \in 1..Len(s) : s[i] \notin StructuralTokens

\* JSON.parse(line) followed by the read of .response: a whole object line
\* gives its response; a bare JSON string gives a value without one; any
\* other piece of a line throws.
JSONparse(line) ==
    IF /\ Len(line) >= 6
       /\ SubSeq(line, 1, 4) = <<LBRACE, KEY, COLON, QUOTE>>
       /\ SubSeq(line, Len(line) - 1, Len(line)) = <<QUOTE, RBRACE>>
       /\ IsPlainText(SubSeq(line, 5, Len(line) - 2))
    THEN [throws |-> FALSE, response |-> SubSeq(line, 5, Len(line) - 2)]
    ELSE IF \/ line = <<KEY>>
            \/ /\ Len(line) >= 2
               /\ line[1] = QUOTE
               /\ line[Len(line)] = QUOTE
               /\ IsPlainText(SubSeq(line, 2, Len(line) - 1))
    THEN [throws |-> FALSE, response |-> <<>>]
    ELSE [throws |-> TRUE, response |-> <<>>]

\* A mutant of processLines: the response is assigned to responseText, not
\* added to it.
RECURSIVE processLinesAssign(_, _)
processLinesAssign(lines, st) ==
    IF lines = <<>> THEN st
    ELSE LET jsonData == JSONparse(Head(lines))
         IN  IF ~jsonData.throws /\ jsonData.response # <<>>
             THEN processLinesAssign(Tail(lines),
                    [responseText |-> jsonData.response,
                     rendered |-> Append(st.rendered, jsonData.response)])
             ELSE processLinesAssign(Tail(lines), st)

\* A mutant of processLines: a line that does not parse ends the loop over
\* the lines of the chunk.
RECURSIVE processLinesAbort(_, _)
processLinesAbort(lines, st) ==
    IF lines = <<>> THEN st
    ELSE LET jsonData == JSONparse(Head(lines))
         IN  IF jsonData.throws THEN st
             ELSE IF jsonData.response # <<>>
             THEN processLinesAbort(Tail(lines),
                    [responseText |-> st.responseText \o jsonData.response,
                     rendered |-> Append(st.rendered,
                                    st.responseText \o jsonData.response)])
             ELSE processLinesAbort(Tail(lines), st)

\* The body of the for loop over the lines of one chunk: st holds
\* responseText and the values rendered so far.
RECURSIVE processLines(_, _)
processLines(lines, st) ==
    IF lines = <<>> THEN st
    ELSE LET jsonData == JSONparse(Head(lines))
         IN  IF ~jsonData.throws /\ jsonData.response # <<>>
             THEN processLines(Tail(lines),
                    [responseText |-> st.responseText \o jsonData.response,
                     rendered |-> Append(st.rendered,
                                    st.responseText \o jsonData.response)])
             ELSE processLines(Tail(lines), st)

(***************************************************************************)
(* Client: state and inputs                                                *)
(***************************************************************************)
MaxSends == 2

Greeting == <<"Hi! I'm Lily">>

Apology == <<"Sorry, there was an error processing your request.">>

\* What the user may type: nothing, a blank, a message between blanks.
InputValues == { <<>>, <<" ">>, <<" ", "a", "b", " ">> }

\* The prompts of the suggestion buttons /resources.json may give: none
\* (the load failed or there are no intents), or one button.
SuggestionOutcomes == { <<>>, << <<"a", "b">> >> }

\* What the server streams for a request: nothing, one line, two lines.
ServerOutputs ==
    { <<>>,
      << <<"H", "e", "l", "l", "o">> >>,
      << <<"H", "e", "l">>, <<"l", "o">> >> }

\* String.prototype.trim over blanks.
trim(s) ==
    LET idx == {i \in 1..Len(s) : s[i] # " "}
    IN  IF idx = {} THEN <<>>
        ELSE SubSeq(s, CHOOSE i \in idx : \A j \in idx : i <= j,
                       CHOOSE i \in idx : \A j \in idx : i >= j)

ClientInit ==
    /\ userInputValue = <<>>
    /\ isProcessing = FALSE
    /\ userInputDisabled = FALSE
    /\ sendButtonDisabled = FALSE
    /\ typingVisible = FALSE
    /\ chatHistory = <<Msg("assistant", Greeting)>>
    /\ chatMessages = <<>>
    /\ suggestions = [loaded |-> FALSE, prompts |-> <<>>]
    /\ calls = <<>>

\* A call is in flight from its fetch to the end of its try statement.
StillInFlight(call) == call.pc \in {"fetch", "read"}

InFlight(c) == StillInFlight(calls[c])

\* The messages sent so far: the user messages of chatHistory.
sendsSoFar ==
    LET IsUser(m) == m.role = "user"
    IN  Len(SelectSeq(chatHistory, IsUser))

(***************************************************************************)
(* Client: sendMessage                                                     *)
(***************************************************************************)
\* A mutant of sendGuard: the isProcessing test is missing.
sendGuardNoFlag(message) == message = <<>>

\* if (message === "" || isProcessing) return;
sendGuard(message) == message = <<>> \/ isProcessing

\* sendMessage() with userInput.value = value, up to its await of fetch:
\* the guard, the disabling, the user message in the DOM and in
\* chatHistory, the empty assistant element, the request. calls keeps the
\* calls in flight and the last one that ended.
sendMessage(value) ==
    LET message == trim(value)
    IN  IF sendGuard(message)
        THEN /\ userInputValue' = value
             /\ UNCHANGED <<isProcessing, userInputDisabled,
                            sendButtonDisabled, typingVisible, chatHistory,
                            chatMessages, calls>>
        ELSE /\ sendsSoFar < MaxSends
             /\ isProcessing' = TRUE
             /\ userInputDisabled' = TRUE
             /\ sendButtonDisabled' = TRUE
             /\ userInputValue' = <<>>
             /\ typingVisible' = TRUE
             /\ chatHistory' = Append(chatHistory, Msg("user", message))
             /\ chatMessages' = chatMessages
                    \o <<[role |-> "user", p |-> message],
                         [role |-> "assistant", p |-> <<>>]>>
             /\ calls' = Append(SelectSeq(calls, StillInFlight),
                    [pc |-> "fetch",
                     el |-> Len(chatMessages) + 2,
                     body |-> Append(chatHistory, Msg("user", message)),
                     served |-> <<>>,
                     stream |-> <<>>,
                     cut |-> FALSE,
                     responseText |-> <<>>,
                     rendered |-> <<>>,
                     outcome |-> "none"])

\* The user edits the textarea (only the resize listener runs).
TypeInput ==
    /\ ~userInputDisabled
    /\ \E v \in InputValues : userInputValue' = v
    /\ UNCHANGED <<isProcessing, userInputDisabled, sendButtonDisabled,
                   typingVisible, chatHistory, chatMessages, suggestions,
                   calls, serverVars, selVars>>

\* keydown Enter without Shift in the textarea.
PressEnter ==
    /\ ~userInputDisabled
    /\ sendMessage(userInputValue)
    /\ UNCHANGED <<suggestions, serverVars, selVars>>

\* click on the send button.
ClickSend ==
    /\ ~sendButtonDisabled
    /\ sendMessage(userInputValue)
    /\ UNCHANGED <<suggestions, serverVars, selVars>>

\* loadSuggestions: the buttons are rendered once, or never.
LoadSuggestions ==
    /\ ~suggestions.loaded
    /\ \E ps \in SuggestionOutcomes :
         suggestions' = [loaded |-> TRUE, prompts |-> ps]
    /\ UNCHANGED <<userInputValue, isProcessing, userInputDisabled,
                   sendButtonDisabled, typingVisible, chatHistory,
                   chatMessages, calls, serverVars, selVars>>

\* click on a suggestion button: the prompt is written into the textarea
\* and sendMessage is called.
ClickSuggestion ==
    /\ \E i \in 1..Len(suggestions.prompts) :
         sendMessage(suggestions.prompts[i])
    /\ UNCHANGED <<suggestions, serverVars, selVars>>

\* A mutant of Cleanup: the controls come back only after a success.
CleanupOnSuccess(outcome) ==
    IF outcome = "completed"
    THEN /\ typingVisible' = FALSE
         /\ isProcessing' = FALSE
         /\ userInputDisabled' = FALSE
         /\ sendButtonDisabled' = FALSE
    ELSE UNCHANGED <<typingVisible, isProcessing, userInputDisabled,
                     sendButtonDisabled>>

\* The finally block, however the try statement ended.
Cleanup(outcome) ==
    /\ typingVisible' = FALSE
    /\ isProcessing' = FALSE
    /\ userInputDisabled' = FALSE
    /\ sendButtonDisabled' = FALSE

\* The catch block: the apology is added to the DOM; then finally.
Fail(c, outcome) ==
    /\ calls' = [calls EXCEPT ![c].pc = "ended", ![c].outcome = outcome]
    /\ chatMessages' = Append(chatMessages,
                              [role |-> "assistant", p |-> Apology])
    /\ Cleanup(outcome)
    /\ UNCHANGED <<userInputValue, chatHistory, suggestions, serverVars,
                   selVars>>

\* await fetch("/api/chat", ...): a rejection or a status that is not ok
\* ends in the catch block; otherwise the body is read.
FetchResolved(c) ==
    /\ calls[c].pc = "fetch"
    /\ \/ Fail(c, "fetchRejected")
       \/ Fail(c, "httpError")
       \/ /\ \E out \in ServerOutputs :
               calls' = [calls EXCEPT ![c].pc = "read",
                                      ![c].served = out,
                                      ![c].stream = EncodeLines(out)]
          /\ UNCHANGED <<userInputValue, isProcessing, userInputDisabled,
                         sendButtonDisabled, typingVisible, chatHistory,
                         chatMessages, suggestions, serverVars, selVars>>

\* await reader.read() gives the next n tokens of the stream: the chunk is
\* split into lines, every line that parses and has a response is added to
\* responseText and rendered into the assistant element.
ReadChunk(c) ==
    /\ calls[c].pc = "read"
    /\ \E n \in 1..Len(calls[c].stream) :
         LET chunk == SubSeq(calls[c].stream, 1, n)
             st == processLines(split(chunk),
                     [responseText |-> calls[c].responseText,
                      rendered |-> calls[c].rendered])
         IN  /\ calls' = [calls EXCEPT
                    ![c].stream = SubSeq(@, n + 1, Len(@)),
                    ![c].responseText = st.responseText,
                    ![c].rendered = st.rendered]
             /\ chatMessages' = [chatMessages EXCEPT
                    ![calls[c].el].p = st.responseText]
    /\ UNCHANGED <<userInputValue, isProcessing, userInputDisabled,
                   sendButtonDisabled, typingVisible, chatHistory,
                   suggestions, serverVars, selVars>>

\* The connection ends before the server's output was all delivered.
StreamCut(c) ==
    /\ calls[c].pc = "read"
    /\ calls[c].stream # <<>>
    /\ calls' = [calls EXCEPT ![c].stream = <<>>, ![c].cut = TRUE]
    /\ UNCHANGED <<userInputValue, isProcessing, userInputDisabled,
                   sendButtonDisabled, typingVisible, chatHistory,
                   chatMessages, suggestions, serverVars, selVars>>

\* await reader.read() gives done: the loop ends, the answer is pushed to
\* chatHistory; then finally.
ReadDone(c) ==
    /\ calls[c].pc = "read"
    /\ calls[c].stream = <<>>
    /\ calls' = [calls EXCEPT ![c].pc = "ended", ![c].outcome = "completed"]
    /\ chatHistory' = Append(chatHistory,
                             Msg("assistant", calls[c].responseText))
    /\ Cleanup("completed")
    /\ UNCHANGED <<userInputValue, chatMessages, suggestions, serverVars,
                   selVars>>

\* await reader.read() rejects.
ReadError(c) ==
    /\ calls[c].pc = "read"
    /\ Fail(c, "readError")

\* The steps of the network: what the awaits of sendMessage wait for.
NetworkStep ==
    \E c \in DOMAIN calls :
        \/ FetchResolved(c)
        \/ ReadChunk(c)
        \/ StreamCut(c)
        \/ ReadDone(c)
        \/ ReadError(c)

ClientNext ==
    \/ TypeInput
    \/ PressEnter
    \/ ClickSend
    \/ LoadSuggestions
    \/ ClickSuggestion
    \/ \E c \in DOMAIN calls : FetchResolved(c)
    \/ \E c \in DOMAIN calls : ReadChunk(c)
    \/ \E c \in DOMAIN calls : StreamCut(c)
    \/ \E c \in DOMAIN calls : ReadDone(c)
    \/ \E c \in DOMAIN calls : ReadError(c)

(***************************************************************************)
(* Client: escapeHtml and linkify                                          *)
(***************************************************************************)
LowerLetters ==
    {"a", "b", "c", "d", "e", "f", "g", "h", "i", "j", "k", "l", "m", "n",
     "o", "p", "q", "r", "s", "t", "u", "v", "w", "x", "y", "z"}

UpperLetters ==
    {"A", "B", "C", "D", "E", "F", "G", "H", "I", "J", "K", "L", "M", "N",
     "O", "P", "Q", "R", "S", "T", "U", "V", "W", "X", "Y", "Z"}

Digits == {"0", "1", "2", "3", "4", "5", "6", "7", "8", "9"}

\* [a-zA-Z]
Letters == LowerLetters \cup UpperLetters

\* \w
WordChars == Letters \cup Digits \cup {"_"}

\* \s, the characters of it the inputs use.
Whitespace == {" ", "\t", "\n", "\r"}

\* The characters that end [^\s<)]+
UrlStops == Whitespace \cup {"<", ")"}

\* [a-zA-Z0-9._%+-]
EmailLocalChars == Letters \cup Digits \cup {".", "_", "%", "+", "-"}

\* [a-zA-Z0-9.-]
EmailDomainChars == Letters \cup Digits \cup {".", "-"}

\* str.replaceAll(c, rep) for a one-character pattern c: every c of str
\* becomes rep (computed on the two halves of str).
RECURSIVE replaceAll(_, _, _)
replaceAll(str, c, rep) ==
    IF str = <<>> THEN <<>>
    ELSE IF Len(str) = 1 THEN (IF str[1] = c THEN rep ELSE str)
    ELSE LET h == Len(str) \div 2
         IN  replaceAll(SubSeq(str, 1, h), c, rep)
             \o replaceAll(SubSeq(str, h + 1, Len(str)), c, rep)

AmpEntity == <<"&", "a", "m", "p", ";">>

LtEntity == <<"&", "l", "t", ";">>

GtEntity == <<"&", "g", "t", ";">>

QuotEntity == <<"&", "q", "u", "o", "t", ";">>

AposEntity == <<"&", "#", "3", "9", ";">>

\* A mutant of escapeHtml: "<" is left as it is.
escapeHtmlNoLt(str) ==
    replaceAll(replaceAll(replaceAll(replaceAll(
        str, "&", AmpEntity), ">", GtEntity), "\"", QuotEntity),
        "'", AposEntity)

escapeHtml(str) ==
    replaceAll(replaceAll(replaceAll(replaceAll(replaceAll(
        str, "&", AmpEntity), "<", LtEntity), ">", GtEntity),
        "\"", QuotEntity), "'", AposEntity)

\* The text lit is in s from position i on.
StartsWith(s, i, lit) ==
    /\ i + Len(lit) - 1 <= Len(s)
    /\ SubSeq(s, i, i + Len(lit) - 1) = lit

\* The last position of the longest run of characters of S from position
\* i on (i - 1 when there is none): a greedy [S]*.
RunEndIn(s, i, S) ==
    IF i > Len(s) THEN i - 1
    ELSE CHOOSE e \in (i - 1)..Len(s) :
            /\ \A j \in i..e : s[j] \in S
            /\ e < Len(s) => s[e + 1] \notin S

\* The same for the characters outside S: a greedy [^S]*.
RunEndNotIn(s, i, S) ==
    IF i > Len(s) THEN i - 1
    ELSE CHOOSE e \in (i - 1)..Len(s) :
            /\ \A j \in i..e : s[j] \notin S
            /\ e < Len(s) => s[e + 1] \in S

NoMatch == [found |-> FALSE, from |-> 0, to |-> 0, keep |-> 0]

\* A match of /@?(https?:\/\/[^\s<)]+)/ that starts at position i: the
\* group is s[from..to].
UrlMatchAt(s, i) ==
    LET j == IF s[i] = "@" THEN i + 1 ELSE i
        k == IF StartsWith(s, j, <<"h", "t", "t", "p", "s">>) THEN j + 5
             ELSE IF StartsWith(s, j, <<"h", "t", "t", "p">>) THEN j + 4
             ELSE 0
        e == IF k > 0 /\ StartsWith(s, k, <<":", "/", "/">>)
             THEN RunEndNotIn(s, k + 3, UrlStops)
             ELSE 0
    IN  IF k > 0 /\ e >= k + 3
        THEN [found |-> TRUE, from |-> j, to |-> e, keep |-> 0]
        ELSE NoMatch

\* A match of /(^|[^\w@])(www\.[^\s<)]+)/ that starts at position i: the
\* first group is empty at the start of the string, or the character
\* s[i] (keep = 1); the second group is s[from..to].
WwwMatchAt(s, i) ==
    LET Www == <<"w", "w", "w", ".">>
        HostFrom(j) ==
            IF StartsWith(s, j, Www) /\ RunEndNotIn(s, j + 4, UrlStops) >= j + 4
            THEN RunEndNotIn(s, j + 4, UrlStops)
            ELSE 0
    IN  IF i = 1 /\ HostFrom(1) > 0
        THEN [found |-> TRUE, from |-> 1, to |-> HostFrom(1), keep |-> 0]
        ELSE IF s[i] \notin WordChars \cup {"@"} /\ HostFrom(i + 1) > 0
        THEN [found |-> TRUE, from |-> i + 1, to |-> HostFrom(i + 1),
              keep |-> 1]
        ELSE NoMatch

\* A match of /([a-zA-Z0-9._%+-]+@[a-zA-Z0-9.-]+\.[a-zA-Z]{2,})/ that
\* starts at position i: the local part is the run up to the "@"; the
\* domain is as long as backtracking allows, so the "." is the last one of
\* the run of domain characters that has a domain character before it and
\* two letters or more after it.
EmailMatchAt(s, i) ==
    LET at == RunEndIn(s, i, EmailLocalChars) + 1
        last == RunEndIn(s, at + 1, EmailDomainChars)
        dots == {p \in (at + 2)..last :
                    /\ s[p] = "."
                    /\ RunEndIn(s, p + 1, Letters) >= p + 2}
        dot == CHOOSE p \in dots : \A o \in dots : o <= p
    IN  IF at > i /\ at <= Len(s) /\ s[at] = "@" /\ dots # {}
        THEN [found |-> TRUE, from |-> i,
              to |-> RunEndIn(s, dot + 1, Letters), keep |-> 0]
        ELSE NoMatch

TargetRel ==
    <<" ", "t", "a", "r", "g", "e", "t", "=", "\"", "_", "b", "l", "a", "n",
      "k", "\"", " ", "r", "e", "l", "=", "\"", "n", "o", "o", "p", "e", "n",
      "e", "r", " ", "n", "o", "r", "e", "f", "e", "r", "r", "e", "r", "\"">>

AnchorOpen == <<"<", "a", " ", "h", "r", "e", "f", "=", "\"">>

AnchorClose == <<"<", "/", "a", ">">>

\* `<a href="${url}" target="_blank" rel="noopener noreferrer">${url}</a>`
UrlAnchor(url) ==
    AnchorOpen \o url \o <<"\"">> \o TargetRel \o <<">">> \o url
    \o AnchorClose

\* `<a href="https://${host}" target="_blank" rel="...">${host}</a>`
WwwAnchor(host) ==
    AnchorOpen \o <<"h", "t", "t", "p", "s", ":", "/", "/">> \o host
    \o <<"\"">> \o TargetRel \o <<">">> \o host \o AnchorClose

\* `<a href="mailto:${email}">${email}</a>`
EmailAnchor(email) ==
    AnchorOpen \o <<"m", "a", "i", "l", "t", "o", ":">> \o email
    \o <<"\"", ">">> \o email \o AnchorClose

\* The smallest member of a set of positions, 0 for the empty set.
Leftmost(ps) == IF ps = {} THEN 0 ELSE CHOOSE p \in ps : \A o \in ps : p <= o

\* The leftmost position from i on where each pattern matches, 0 if none.
FirstUrlMatch(s, i) == Leftmost({p \in i..Len(s) : UrlMatchAt(s, p).found})

FirstWwwMatch(s, i) == Leftmost({p \in i..Len(s) : WwwMatchAt(s, p).found})

FirstEmailMatch(s, i) ==
    Leftmost({p \in i..Len(s) : EmailMatchAt(s, p).found})

\* String.prototype.replace with a global pattern, from position i on: the
\* text before the leftmost match is kept, the match is replaced, and the
\* search goes on after it.
RECURSIVE replaceUrls(_, _)
replaceUrls(s, i) ==
    LET p == FirstUrlMatch(s, i)
        m == UrlMatchAt(s, p)
    IN  IF p = 0 THEN SubSeq(s, i, Len(s))
        ELSE SubSeq(s, i, p - 1)
             \o UrlAnchor(SubSeq(s, m.from, m.to))
             \o replaceUrls(s, m.to + 1)

RECURSIVE replaceWww(_, _)
replaceWww(s, i) ==
    LET p == FirstWwwMatch(s, i)
        m == WwwMatchAt(s, p)
    IN  IF p = 0 THEN SubSeq(s, i, Len(s))
        ELSE SubSeq(s, i, p + m.keep - 1)
             \o WwwAnchor(SubSeq(s, m.from, m.to))
             \o replaceWww(s, m.to + 1)

RECURSIVE replaceEmails(_, _)
replaceEmails(s, i) ==
    LET p == FirstEmailMatch(s, i)
        m == EmailMatchAt(s, p)
    IN  IF p = 0 THEN SubSeq(s, i, Len(s))
        ELSE SubSeq(s, i, p - 1)
             \o EmailAnchor(SubSeq(s, m.from, m.to))
             \o replaceEmails(s, m.to + 1)

\* The three pattern passes of linkify over the escaped text.
patternPasses(escaped) ==
    replaceEmails(replaceWww(replaceUrls(escaped, 1), 1), 1)

linkify(text) == patternPasses(escapeHtml(text))

(***************************************************************************)
(* Inputs of linkify                                                       *)
(***************************************************************************)
MaxPieces == 3

\* The pieces a raw text is made of: a tag, the other three
\* HTML-significant characters, a blank, a protocol, a www prefix, an
\* address, a host, a closing parenthesis, an at sign.
TextPieces ==
    { <<"<", "s", "c", "r", "i", "p", "t", ">">>,
      <<"&", "\"", "'">>,
      <<" ">>,
      <<"h", "t", "t", "p", "s", ":", "/", "/">>,
      <<"w", "w", "w", ".">>,
      <<"a", "@", "b", ".", "c", "o">>,
      <<"b", ".", "c", "o">>,
      <<")">>,
      <<"@">> }

\* The raw texts: up to MaxPieces pieces, one after the other.
RawTexts == { Concat(ps) : ps \in SeqsUpTo(TextPieces, MaxPieces) }

LnkInit ==
    lnk \in [pc : {"call"}, text : RawTexts, escaped : {<<>>}, html : {<<>>}]

LnkIdle == lnk = [pc |-> "idle"]

\* One call of linkify on the drawn text.
Linkify ==
    /\ lnk.pc = "call"
    /\ lnk' = [lnk EXCEPT
                !.pc = "done",
                !.escaped = escapeHtml(lnk.text),
                !.html = linkify(lnk.text)]
    /\ UNCHANGED <<sel, serverVars, clientVars>>

(***************************************************************************)
(* Specifications                                                          *)
(***************************************************************************)
Init == ServerInit /\ SelIdle /\ LnkIdle /\ ClientInit

Next ==
    \/ \E r \in DOMAIN req : ParseBody(r)
    \/ \E r \in DOMAIN req : ResourcesLoaded(r)
    \/ \E r \in DOMAIN req : ResourcesLoadedJson(r)
    \/ \E r \in DOMAIN req : DirectivesLoaded(r)
    \/ \E r \in DOMAIN req : StartRetrieval(r)
    \/ \E r \in DOMAIN req : RetrievalDone(r)
    \/ \E r \in DOMAIN req : ModelDone(r)

Spec == Init /\ [][Next]_vars

SelectorInit == SelInit /\ LnkIdle /\ ServerIdle /\ ClientInit

SelectorNext == Select

SelectorSpec == SelectorInit /\ [][SelectorNext]_vars

ClientSpecInit == ClientInit /\ ServerIdle /\ SelIdle /\ LnkIdle

ClientSpec == ClientSpecInit /\ [][ClientNext]_vars

ConcurrentInit == ConcurrentServerInit /\ SelIdle /\ LnkIdle /\ ClientInit

\* The awaits of the concurrent calls of handleChatRequest resolve in any
\* order, one at a time.
ConcurrentNext ==
    \/ \E r \in DOMAIN req : ParseBody(r) /\ ConcurrentInputs'
    \/ \E r \in DOMAIN req : ResourcesLoaded(r) /\ ConcurrentInputs'
    \/ \E r \in DOMAIN req : DirectivesLoaded(r) /\ ConcurrentInputs'
    \/ \E r \in DOMAIN req : StartRetrieval(r) /\ ConcurrentInputs'
    \/ \E r \in DOMAIN req : RetrievalDone(r) /\ ConcurrentInputs'
    \/ \E r \in DOMAIN req : ModelDone(r) /\ ConcurrentInputs'

ConcurrentSpec == ConcurrentInit /\ [][ConcurrentNext]_vars

LinkifyInit == LnkInit /\ SelIdle /\ ServerIdle /\ ClientInit

LinkifyNext == Linkify

LinkifySpec == LinkifyInit /\ [][LinkifyNext]_vars

\* A request's awaits all resolve or reject: the network does not hang.
ClientFairSpec == ClientSpec /\ WF_vars(NetworkStep)

(***************************************************************************)
(* Claims about the context assembly (Spec)                                *)
(***************************************************************************)
\* The layer a prepended system message belongs to, and its place in the
\* documented order; 0 for a message that is no layer.
LayerRank(m) ==
    IF "rag" \in DOMAIN m.content THEN 1
    ELSE IF "policy" \in DOMAIN m.content THEN 2
    ELSE IF "compact" \in DOMAIN m.content THEN 3
    ELSE IF "resources" \in DOMAIN m.content THEN 3
    ELSE IF m = Msg("system", Text(SYSTEM_PROMPT)) THEN 4
    ELSE 0

LayerName(m) ==
    <<"retrieval", "policy", "resources", "baseline">>[LayerRank(m)]

Reverse(q) == [i \in 1..Len(q) |-> q[Len(q) + 1 - i]]

InSeq(x, q) == \E i \in 1..Len(q) : q[i] = x

\* C1: the list passed to env.AI.run is the system messages the steps
\* prepended, in the order retrieval, policy, resources, baseline (each at
\* most once, the ones that were added and no other), followed by the
\* request's history unchanged.
C1_LayerOrder ==
    \A r \in DOMAIN req :
        req[r].aiCalled =>
            LET a == req[r].aiInput
                h == req[r].history
                k == Len(a) - Len(h)
            IN  /\ k >= 0
                /\ SubSeq(a, k + 1, Len(a)) = h
                /\ \A i \in 1..k :
                     /\ a[i].role = "system"
                     /\ LayerRank(a[i]) > 0
                     /\ i < k => LayerRank(a[i]) < LayerRank(a[i + 1])
                /\ [i \in 1..k |-> LayerName(a[i])] = Reverse(req[r].layers)

\* All four layers were added before a non-empty history.
C1_Witness ==
    \E r \in DOMAIN req :
        /\ req[r].aiCalled
        /\ req[r].history # <<>>
        /\ Len(req[r].aiInput) = Len(req[r].history) + 4

\* C2: the baseline prompt is added iff the history holds no system message;
\* the list handed to the model is longer than the history by one for the
\* baseline (when added) plus one per optional layer that was added; the
\* history [{user, "hi"}] with no knowledge, policy or retrieval result
\* gives exactly [{system, baseline}, {user, "hi"}].
C2_BaselineAndLength ==
    \A r \in DOMAIN req :
        req[r].aiCalled =>
            LET a == req[r].aiInput
                h == req[r].history
                IsOptional(l) == l # "baseline"
                optional == Len(SelectSeq(req[r].layers, IsOptional))
                baseline == IF ~hasSystem(h) THEN 1 ELSE 0
            IN  /\ InSeq("baseline", req[r].layers) <=> ~hasSystem(h)
                /\ InSeq(Msg("system", Text(SYSTEM_PROMPT)), a) <=> ~hasSystem(h)
                /\ Len(a) = Len(h) + baseline + optional
                /\ ( /\ h = <<Msg("user", Text(Hi))>>
                     /\ req[r].resources = JsNull
                     /\ req[r].policy = JsNull
                     /\ req[r].ragResult = JsNull )
                   => a = <<Msg("system", Text(SYSTEM_PROMPT)),
                            Msg("user", Text(Hi))>>

\* The history [{user, "hi"}] reached the model with nothing available.
C2_Witness ==
    \E r \in DOMAIN req :
        /\ req[r].aiCalled
        /\ req[r].history = <<Msg("user", Text(Hi))>>
        /\ req[r].loadOutcome = "notOk"
        /\ req[r].policy = JsNull
        /\ req[r].ragResult = JsNull
        /\ Len(req[r].aiInput) = 2

\* A knowledge document with no FAQ entry: {} or {faq: []}.
EmptyDocument(d) ==
    /\ d.type = "object"
    /\ (d.faqIsArray => d.faq = <<>>)

\* C3: for an empty knowledge document, or an absent one, no resources
\* message is prepended.
C3_NoResourcesMessage ==
    \A r \in DOMAIN req :
        ( /\ req[r].pc \in {"directives", "autorag", "retrieval", "run", "done"}
          /\ req[r].resources = JsNull \/ EmptyDocument(req[r].resources) )
        => \A i \in 1..Len(req[r].messages) :
               /\ "compact" \notin DOMAIN req[r].messages[i].content
               /\ "resources" \notin DOMAIN req[r].messages[i].content

\* The resources message the code builds for request r.
ResourcesMessage(r) ==
    Msg("system",
        [label |-> ResourcesLabel,
         compact |-> buildContextFromResources(
                        req[r].latestUser, req[r].resources, DefaultMaxFaq,
                        DefaultMaxAnswerChars).json])

Index(x, q) == CHOOSE i \in 1..Len(q) : q[i] = x

IsSuffix(s, t) ==
    /\ Len(s) <= Len(t)
    /\ SubSeq(t, Len(t) - Len(s) + 1, Len(t)) = s

\* C14: every step of the assembly only prepends: a step leaves the working
\* list as a suffix of the new one, and the request's history is a suffix
\* of the working list after every step and of the list given to the
\* model, its messages unchanged and in their order.
C14_OnlyPrepends ==
    [][\A r \in DOMAIN req :
          /\ IsSuffix(req[r].messages, req'[r].messages)
          /\ req'[r].bodyOutcome = "parsed" =>
               IsSuffix(req'[r].history, req'[r].messages)
          /\ req'[r].aiCalled =>
               IsSuffix(req'[r].history, req'[r].aiInput)]_vars

\* A history of two messages reached the model behind a resources message
\* and a retrieval context.
C14_Witness ==
    \E r \in DOMAIN req :
        /\ req[r].aiCalled
        /\ Len(req[r].history) = 2
        /\ InSeq("resources", req[r].layers)
        /\ InSeq("retrieval", req[r].layers)
        /\ Len(req[r].aiInput) >= Len(req[r].history) + 2

RetrievalFailures == {"instanceThrows", "callThrows"}

IsRetrievalMessage(m) == "rag" \in DOMAIN m.content

\* The list request r has when the retrieval step adds nothing: the
\* history after the baseline, resources and policy steps.
ListWithoutRetrieval(r) ==
    PolicyStep(
        ResourcesStep(BaselineStep(req[r].history), req[r].resources,
                      req[r].latestUser),
        req[r].policy)

\* C15: when obtaining the retrieval instance throws, or the aiSearch or
\* search call throws or rejects, the model is called with the list the
\* request has without the retrieval step, and no error response comes of
\* it (only of the model call throwing); a retrieval context message is in
\* the list only when the call resolved to a result.
C15_RetrievalFailureSkipped ==
    \A r \in DOMAIN req :
        /\ req[r].ragOutcome \in RetrievalFailures =>
             /\ req[r].pc \in {"run", "done"}
             /\ req[r].aiCalled
             /\ req[r].aiInput = ListWithoutRetrieval(r)
             /\ req[r].response = ErrorResponse =>
                  req[r].modelOutcome = "throws"
        /\ (\E i \in 1..Len(req[r].messages) :
                IsRetrievalMessage(req[r].messages[i]))
           => /\ req[r].ragOutcome = "resolved"
              /\ Truthy(req[r].ragResult)

\* The retrieval call rejected, behind a resources message and a policy,
\* and the request was answered with the model's stream.
C15_Witness ==
    \E r \in DOMAIN req :
        /\ req[r].ragOutcome = "callThrows"
        /\ req[r].ragCall.method = "search"
        /\ InSeq("resources", req[r].layers)
        /\ InSeq("policy", req[r].layers)
        /\ req[r].pc = "done"
        /\ req[r].response.status = 200

\* The retrieval call of a request, when it made one, is as the
\* configuration and the latest user message have it.
RetrievalCallAsConfigured(rq, e) ==
    /\ rq.ragCall.method # "none" =>
         /\ e.AUTORAG_INSTANCE
         /\ e.autorag
         /\ rq.latestUser # <<>>
         /\ rq.latestUser = latestUserOf(rq.history)
         /\ rq.ragCall.query = rq.latestUser
         /\ rq.ragCall.filter <=> e.AUTORAG_TENANT
    /\ rq.ragCall.method = "aiSearch" => e.aiSearch
    /\ rq.ragCall.method = "search" => e.search /\ ~e.aiSearch
    /\ ( /\ rq.pc \in {"retrieval", "run", "done"}
         /\ rq.loadOutcome # "none"
         /\ rq.ragOutcome # "instanceThrows"
         /\ e.AUTORAG_INSTANCE /\ e.autorag /\ e.aiSearch
         /\ rq.latestUser # <<>> )
       => rq.ragCall.method = "aiSearch"

\* C16: a retrieval method is called only when the instance is configured,
\* env.AI.autorag is available and the latest user message is not empty;
\* the method is aiSearch whenever it exists and search only when aiSearch
\* does not; the filter is passed exactly when a tenant is configured; and
\* a request that made its call makes no other.
C16_RetrievalInvocation ==
    [][\A r \in DOMAIN req :
          /\ RetrievalCallAsConfigured(req'[r], env')
          /\ req[r].ragCall # NoCall => req'[r].ragCall = req[r].ragCall]_vars

\* search was called, with the filter, because aiSearch does not exist.
C16_Witness ==
    \E r \in DOMAIN req :
        /\ req[r].ragCall.method = "search"
        /\ req[r].ragCall.filter
        /\ env.AUTORAG_TENANT
        /\ ~env.aiSearch
        /\ req[r].ragOutcome = "resolved"
        /\ req[r].pc = "done"

(***************************************************************************)
(* Claims about the FAQ selector (SelectorSpec)                            *)
(***************************************************************************)
\* The call returned a selection from a document with an FAQ array.
SelDone ==
    /\ sel.pc = "done"
    /\ sel.resources.type = "object"
    /\ sel.resources.faqIsArray

\* No entry's lowercased question or answer contains the lowercased query.
NoEntryMatches(query, faqs) ==
    \A i \in 1..Len(faqs) :
        /\ ~includes(toLowerCase(faqs[i].q), toLowerCase(query))
        /\ ~includes(toLowerCase(faqs[i].a), toLowerCase(query))

\* out is the entry f as the selector emits it: its question and url, and
\* its answer or the first maxAnswerChars characters of it and a suffix.
EmittedFrom(out, f, maxAnswerChars) ==
    /\ out.q = f.q
    /\ out.url = f.url
    /\ slice0(out.a, maxAnswerChars) = slice0(f.a, maxAnswerChars)

\* C5: for a non-empty FAQ set, when the query is empty or matches no
\* entry, the selection is the first min(maxFaq, |faq|) entries of the full
\* set in their order, and it is not empty.
C5_FallbackToFullSet ==
    ( /\ SelDone
      /\ sel.resources.faq # <<>>
      /\ \/ sel.userQuery = <<>>
         \/ NoEntryMatches(sel.userQuery, sel.resources.faq) )
    => LET faqs == sel.resources.faq
           selected == sel.result.json.selected_faq
       IN  /\ Len(selected) = Min(sel.maxFaq, Len(faqs))
           /\ Len(selected) > 0
           /\ \A i \in 1..Len(selected) :
                EmittedFrom(selected[i], faqs[i], sel.maxAnswerChars)

\* A query that matches nothing, over more entries than maxFaq.
C5_Witness ==
    /\ SelDone
    /\ sel.userQuery = <<"z">>
    /\ Len(sel.resources.faq) > sel.maxFaq
    /\ sel.maxFaq = DefaultMaxFaq
    /\ Len(sel.result.json.selected_faq) = DefaultMaxFaq

\* C6: every selected entry's answer is emitted unchanged when it has at
\* most maxAnswerChars (400) characters, and otherwise as its first 400
\* characters followed by one ellipsis character, 401 in all.
C6_TruncateWithOneEllipsis ==
    SelDone =>
        LET candidates == candidatesOf(sel.userQuery, sel.resources.faq)
            selected == sel.result.json.selected_faq
        IN  \A i \in 1..Len(selected) :
                LET src == candidates[i].a
                    out == selected[i].a
                IN  IF Len(src) > sel.maxAnswerChars
                    THEN /\ out = SubSeq(src, 1, sel.maxAnswerChars)
                                    \o EllipsisChar
                         /\ Len(out) = sel.maxAnswerChars + 1
                    ELSE out = src

\* The positions of the entries of faqs whose lowercased question or
\* lowercased answer contains the lowercased query.
MatchingPositions(query, faqs) ==
    {i \in 1..Len(faqs) :
        \/ includes(toLowerCase(faqs[i].q), toLowerCase(query))
        \/ includes(toLowerCase(faqs[i].a), toLowerCase(query))}

\* The k-th smallest member of a set of positions.
KthOf(P, k) == CHOOSE i \in P : Cardinality({j \in P : j <= i}) = k

\* C13: for a non-empty query that matches an entry, the selection is the
\* first min(maxFaq, number of matching entries) matching entries, in the
\* order of the document; an entry that does not match is not selected.
C13_FirstMatchingEntries ==
    ( /\ SelDone
      /\ sel.userQuery # <<>>
      /\ MatchingPositions(sel.userQuery, sel.resources.faq) # {} )
    => LET faqs == sel.resources.faq
           M == MatchingPositions(sel.userQuery, faqs)
           selected == sel.result.json.selected_faq
       IN  /\ Len(selected) = Min(sel.maxFaq, Cardinality(M))
           /\ \A k \in 1..Len(selected) :
                EmittedFrom(selected[k], faqs[KthOf(M, k)],
                            sel.maxAnswerChars)

\* The query "AB" over a document whose first entry does not match and
\* that has more matching entries than maxFaq: the second entry is first.
C13_Witness ==
    /\ SelDone
    /\ sel.userQuery = <<"A", "B">>
    /\ 1 \notin MatchingPositions(sel.userQuery, sel.resources.faq)
    /\ Cardinality(MatchingPositions(sel.userQuery, sel.resources.faq))
         > sel.maxFaq
    /\ Len(sel.result.json.selected_faq) = sel.maxFaq
    /\ sel.result.json.selected_faq[1].q = sel.resources.faq[2].q

(***************************************************************************)
(* Claims about the request's errors (Spec)                                *)
(***************************************************************************)
\* C10: a request whose body is malformed, or whose model call failed
\* before streaming (it threw, or its result is not a success), is answered
\* with the one structured error: a non-success status, a JSON content
\* type, the generic message.
C10_FatalErrorsAnswered ==
    \A r \in DOMAIN req :
        ( /\ req[r].pc = "done"
          /\ \/ req[r].bodyOutcome = "malformed"
             \/ req[r].modelOutcome \in {"throws", "notOk"} )
        => /\ req[r].response.status >= 400
           /\ req[r].response.contentType = "application/json"
           /\ req[r].response.body = ErrorResponse.body

(***************************************************************************)
(* Claims about the client (ClientSpec, ClientFairSpec)                    *)
(***************************************************************************)
\* C7: wherever the read boundaries fall, the text accumulated when the
\* stream completes is the concatenation of the response fields of all the
\* lines the server emitted ("Hello" for the one line split in two reads).
C7_FinalTextComplete ==
    \A c \in DOMAIN calls :
        (calls[c].outcome = "completed" /\ ~calls[c].cut)
        => calls[c].responseText = Concat(calls[c].served)

InFlightCalls == {c \in DOMAIN calls : InFlight(c)}

ControlsEnabled ==
    /\ ~isProcessing
    /\ ~userInputDisabled
    /\ ~sendButtonDisabled

\* C8: at most one request to /api/chat is in flight, and while it is the
\* input and the send button are disabled.
C8_OneRequestInFlight ==
    /\ Cardinality(InFlightCalls) <= 1
    /\ InFlightCalls # {} =>
         /\ isProcessing
         /\ userInputDisabled
         /\ sendButtonDisabled

\* A suggestion was clicked while a request was being read: its prompt is
\* in the textarea, and no second request started.
C8_Witness ==
    /\ \E c \in DOMAIN calls : calls[c].pc = "read"
    /\ userInputValue # <<>>
    /\ sendsSoFar = 1

\* C9: a request in flight whose awaits all settle is followed by a state
\* where isProcessing is false and the input and send button are enabled,
\* whichever way it ended.
C9_ControlsComeBack == (InFlightCalls # {}) ~> ControlsEnabled

\* A request ended by an error of a stream read, and the controls are back.
C9_Witness ==
    /\ \E c \in DOMAIN calls :
         /\ calls[c].outcome = "readError"
         /\ calls[c].responseText # <<>>
    /\ ControlsEnabled

(***************************************************************************)
(* Claims about the knowledge store loader (Spec)                          *)
(***************************************************************************)
LoadFailures == {"fetchThrows", "notOk", "parseFails"}

\* m is a resources message, of either revision of the handler.
IsResourcesMessage(m) ==
    \/ "compact" \in DOMAIN m.content
    \/ "resources" \in DOMAIN m.content

\* C11: when the asset fetch throws, answers with a status that is not ok or
\* with a body that does not parse, loadResources returns null and throws
\* nothing: the handler goes on, no resources message is in the working
\* list, the request ends only after the model was called, and an error
\* response comes only from the model call throwing.
C11_LoadFailureIsAbsent ==
    \A r \in DOMAIN req :
        req[r].loadOutcome \in LoadFailures =>
            /\ req[r].resources = JsNull
            /\ req[r].pc \in {"directives", "autorag", "retrieval", "run", "done"}
            /\ \A i \in 1..Len(req[r].messages) :
                 ~IsResourcesMessage(req[r].messages[i])
            /\ req[r].pc \in {"run", "done"} =>
                 /\ req[r].aiCalled
                 /\ req[r].aiInput = req[r].messages
            /\ req[r].response = ErrorResponse =>
                 req[r].modelOutcome = "throws"

\* The asset answered with an error status and a JSON body, and the request
\* was answered with the model's stream.
C11_Witness ==
    \E r \in DOMAIN req :
        /\ req[r].loadOutcome = "notOk"
        /\ req[r].history # <<>>
        /\ req[r].pc = "done"
        /\ req[r].aiCalled
        /\ req[r].response.status = 200

(***************************************************************************)
(* Claims about linkify (LinkifySpec)                                      *)
(***************************************************************************)
LnkDone == lnk.pc = "done"

ScriptTag == <<"<", "s", "c", "r", "i", "p", "t", ">">>

Entities == {AmpEntity, LtEntity, GtEntity, QuotEntity, AposEntity}

\* C12: the five HTML-significant characters are escaped over the whole
\* text before the pattern passes (the escaped text holds no "<", ">",
\* double or single quote, and each "&" of it starts an entity), so the
\* output holds no tag of the input: every "<" of the output starts the
\* opening or the closing markup of an anchor linkify generated, every ">"
\* ends one, and "<script>" is nowhere in it.
C12_InputTagsEscaped ==
    LnkDone =>
        /\ \A i \in 1..Len(lnk.escaped) :
             /\ lnk.escaped[i] \notin {"<", ">", "\"", "'"}
             /\ lnk.escaped[i] = "&" =>
                  \E e \in Entities : StartsWith(lnk.escaped, i, e)
        /\ \A i \in 1..Len(lnk.html) :
             /\ lnk.html[i] = "<" =>
                  \/ StartsWith(lnk.html, i, AnchorOpen)
                  \/ StartsWith(lnk.html, i, AnchorClose)
             /\ lnk.html[i] = ">" =>
                  \/ i > 3 /\ StartsWith(lnk.html, i - 3, AnchorClose)
                  \/ i > 1 /\ lnk.html[i - 1] = "\""
        /\ ~includes(lnk.html, ScriptTag)

\* A text with "<script>" and a URL: the tag is in the output escaped, and
\* the URL in an anchor.
C12_Witness ==
    /\ LnkDone
    /\ includes(lnk.text, ScriptTag)
    /\ includes(lnk.html, LtEntity \o <<"s", "c", "r", "i", "p", "t">> \o GtEntity)
    /\ includes(lnk.html, AnchorOpen)

\* The positions of the output where a tag starts.
TagStarts == {p \in 1..Len(lnk.html) : lnk.html[p] = "<"}

\* C19: no pass matches inside the markup an earlier pass generated: in the
\* output the opening and closing tags of the anchors alternate (no anchor
\* starts inside another anchor or inside an href), and a URL with a
\* protocol and a www host, or with an address in it, is wrapped once.
C19_NoNestedAnchors ==
    LnkDone =>
        /\ \A p \in TagStarts :
             StartsWith(lnk.html, p, AnchorOpen)
             <=> Cardinality({q \in TagStarts : q < p}) % 2 = 0
        /\ Cardinality(TagStarts) % 2 = 0
        /\ lnk.text \in
                { <<"h", "t", "t", "p", "s", ":", "/", "/", "w", "w", "w", ".",
                    "b", ".", "c", "o">>,
                  <<"h", "t", "t", "p", "s", ":", "/", "/", "a", "@", "b", ".",
                    "c", "o">> }
             => Cardinality(TagStarts) = 2

(***************************************************************************)
(* Claims about the stream consumer (ClientSpec)                           *)
(***************************************************************************)
\* The step is a read of call c that delivered a chunk.
IsChunkRead(c) ==
    /\ c \in DOMAIN calls'
    /\ calls[c].pc = "read"
    /\ calls'[c].el = calls[c].el
    /\ ~calls'[c].cut
    /\ Len(calls'[c].stream) < Len(calls[c].stream)

\* The chunk the read delivered.
ChunkRead(c) ==
    SubSeq(calls[c].stream, 1, Len(calls[c].stream) - Len(calls'[c].stream))

\* The line is a structured chunk with a response.
ParsesWithResponse(line) ==
    /\ ~JSONparse(line).throws
    /\ JSONparse(line).response # <<>>

\* The responses of the lines of a chunk that parse, in their order.
ResponsesOf(chunk) ==
    LET good == SelectSeq(split(chunk), ParsesWithResponse)
    IN  [i \in 1..Len(good) |-> JSONparse(good[i]).response]

\* C17: a line that does not parse (the empty string after a newline, a
\* half of a line cut by a read) is dropped: a read adds to the accumulator
\* the responses of the lines that parse and nothing else, renders once
\* for each of them and not for the others, and leaves the call reading;
\* the call completes only when the stream is at its end.
C17_BadLinesDropped ==
    [][\A c \in DOMAIN calls :
          /\ IsChunkRead(c) =>
               /\ calls'[c].responseText =
                    calls[c].responseText \o Concat(ResponsesOf(ChunkRead(c)))
               /\ Len(calls'[c].rendered) =
                    Len(calls[c].rendered) + Len(ResponsesOf(ChunkRead(c)))
               /\ calls'[c].pc = "read"
               /\ calls'[c].outcome = "none"
               /\ chatMessages'[calls[c].el].p = calls'[c].responseText
               /\ Len(chatMessages') = Len(chatMessages)
          /\ ( /\ c \in DOMAIN calls'
               /\ calls[c].pc = "read"
               /\ calls'[c].outcome = "completed" )
             => calls[c].stream = <<>>]_vars

\* The first of two lines was cut by a read and dropped, both halves; the
\* second was read whole, and the stream completed with its text alone.
C17_Witness ==
    \E c \in DOMAIN calls :
        /\ calls[c].outcome = "completed"
        /\ ~calls[c].cut
        /\ calls[c].served = << <<"H", "e", "l">>, <<"l", "o">> >>
        /\ calls[c].responseText = <<"l", "o">>
        /\ calls[c].rendered = << <<"l", "o">> >>

\* The value rendered before the i-th render of a call: the empty text of
\* the new assistant element, or the render before.
RenderedBefore(call, i) == IF i = 1 THEN <<>> ELSE call.rendered[i - 1]

\* C18: within a request the accumulated text only grows: every rendered
\* value is the value rendered before it followed by the (non-empty)
\* response of a line the server sent, the accumulator and the assistant
\* element hold the last rendered value, and on completion that value is
\* what is pushed to chatHistory after the request's messages.
C18_TextOnlyGrows ==
    \A c \in DOMAIN calls :
        LET call == calls[c]
            n == Len(call.rendered)
            last == IF n = 0 THEN <<>> ELSE call.rendered[n]
        IN  /\ \A i \in 1..n :
                 \E k \in 1..Len(call.served) :
                     /\ call.served[k] # <<>>
                     /\ call.rendered[i] =
                          RenderedBefore(call, i) \o call.served[k]
            /\ call.responseText = last
            /\ chatMessages[call.el].p = last
            /\ call.outcome = "completed" =>
                 /\ Len(chatHistory) > Len(call.body)
                 /\ SubSeq(chatHistory, 1, Len(call.body)) = call.body
                 /\ chatHistory[Len(call.body) + 1] = Msg("assistant", last)

\* Two lines were rendered, "Hel" and then "Hello", and "Hello" pushed.
C18_Witness ==
    \E c \in DOMAIN calls :
        /\ calls[c].outcome = "completed"
        /\ calls[c].rendered =
             << <<"H", "e", "l">>, <<"H", "e", "l", "l", "o">> >>
        /\ chatHistory[Len(chatHistory)] =
             Msg("assistant", <<"H", "e", "l", "l", "o">>)

\* The apology was added to the conversation after the call's element.
ApologyAdded(call) ==
    \E i \in (call.el + 1)..Len(chatMessages) :
        chatMessages[i] = [role |-> "assistant", p |-> Apology]

\* C20: a call whose stream had started and that ended without all of the
\* server's output (a read rejected, or the connection ended early) has
\* added the apology to the conversation.
C20_BrokenStreamGetsApology ==
    \A c \in DOMAIN calls :
        ( /\ calls[c].pc = "ended"
          /\ calls[c].outcome = "readError" \/ calls[c].cut )
        => ApologyAdded(calls[c])

\* C22: chatHistory alternates: a user message is followed by an assistant
\* message before the next user message, so the body of a request has no
\* two user messages in a row and no assistant message with empty content.
C22_HistoryAlternates ==
    \A c \in DOMAIN calls :
        LET body == calls[c].body
        IN  /\ \A i \in 1..(Len(body) - 1) :
                 ~(body[i].role = "user" /\ body[i + 1].role = "user")
            /\ \A i \in 1..Len(body) :
                 body[i].role = "assistant" => body[i].content # <<>>

(***************************************************************************)
(* Claims about concurrent requests (ConcurrentSpec)                       *)
(***************************************************************************)
\* The list the steps build from a request's own body and from the results
\* its own awaits resolved to.
AssembledFrom(rq) ==
    RetrievalStep(
        PolicyStep(
            ResourcesStep(BaselineStep(rq.history), rq.resources,
                          latestUserOf(rq.history)),
            rq.policy),
        rq.ragResult)

\* C21: in every interleaving of the awaits of concurrent requests, a step
\* of one request changes no other request's locals (and not the
\* bindings), and the list each request gives to the model is the one
\* built from its own body and the results it received itself.
C21_RequestsIndependent ==
    [][/\ env' = env
       /\ \A r \in DOMAIN req :
            /\ req'[r] # req[r] =>
                 \A q \in DOMAIN req \ {r} : req'[q] = req[q]
            /\ req'[r].aiCalled =>
                 req'[r].aiInput = AssembledFrom(req'[r])]_vars

\* Two requests await the model at once, with different bodies, one with
\* a document and a retrieval result and the other with neither.
C21_Witness ==
    \E r, q \in DOMAIN req :
        /\ r # q
        /\ req[r].pc = "run"
        /\ req[q].pc = "run"
        /\ req[r].history # req[q].history
        /\ req[r].loadOutcome = "document"
        /\ InSeq("retrieval", req[r].layers)
        /\ req[q].loadOutcome = "notOk"
        /\ req[q].ragOutcome = "callThrows"
        /\ Len(req[q].aiInput) < Len(req[r].aiInput)

====
